---- MODULE Spec2Model ----
(***************************************************************************)
(* The application-space transmission payload of s2n-quic                  *)
(* (quic/s2n-quic-transport/src/transmission/application.rs).              *)
(*                                                                         *)
(* A Payload is built by Payload::new for a transmission mode and a path   *)
(* id, and its on_transmit invites a fixed-order list of frame producers   *)
(* to write into one write context.  The model records, for the last       *)
(* on_transmit call, the ordered list of invocations the handler made      *)
(* (trace), the capacity seen on entry and the bytes the producers wrote.  *)
(*                                                                         *)
(* The stream controllers of stream/controller.rs are modelled as the      *)
(* file has them: new() is todo!() and every method has an empty body, so  *)
(* a method is applied to a receiver that is a value of the struct.        *)
(***************************************************************************)
EXTENDS Integers, Sequences, FiniteSets, TLC

\* ------------------------------------------------------------------ bounds
\* path ids are 0 .. MaxPath
MaxPath == 1
\* remaining_capacity() on entry to on_transmit is 0 .. MaxCapacity
MaxCapacity == 2
\* total size of the frames the producers hold when on_transmit is called
MaxWant == 2
\* number of on_transmit calls recorded over one payload's lifetime
MaxPackets == 3
\* number of providers reporting an interest other than None in one query
MaxInterested == 3
\* the bounds of the range given to size_hint are 0 .. MaxSize
MaxSize == 3
\* max_local_limit of a stream controller is 0 .. MaxLocalLimit
MaxLocalLimit == 4
\* peer_stream_limit and opened_streams of a controller are 0 .. MaxPeerLimit,
\* the limit of a MAX_STREAMS frame is 0 .. MaxPeerLimit + 1
MaxPeerLimit == 4
\* closed_streams of a local-initiated controller is 0 .. MaxClosed
MaxClosed == 1
\* the callers polling for a stream are 1 .. MaxCallers
MaxCallers == 2
\* number of wakers registered with one controller
MaxWakers == 2
\* token_counter of a controller is 0 .. MaxTokens
MaxTokens == 2
\* the packet an ack set reports is 0 .. MaxPacketNumber
MaxPacketNumber == 1
\* the time of an on_timeout call is 0 .. MaxNow
MaxNow == 1
\* closed_streams of a remote-initiated controller is 0 .. MaxRemoteStreams
MaxRemoteStreams == 3

VARIABLES
    active_path_id,     \* path_manager.active_path_id()
    transmission_mode,  \* the transmission_mode argument of the last Payload::new
    payload,            \* the Payload value
    constraint,         \* context.transmission_constraint() of the last on_transmit
    entry_capacity,     \* context.remaining_capacity() on entry to the last on_transmit
    entry_prioritize,   \* self.prioritize_datagrams on entry to the last on_transmit
    trace,              \* the invocations made by the last on_transmit, in order
    written,            \* bytes written into the context by the last on_transmit
    declined,           \* frames that did not fit during the last on_transmit
    did_send_ack,       \* the value ack_manager.on_transmit returned
    packets,            \* on_transmit calls recorded since the payload was built
    run,                \* per-packet "datagrams were prioritized", for the current
                        \* run of consecutive permitted Normal transmissions
    interests,          \* the interest each provider reports
    interest,           \* the interest the last query ended with
                        \* ("NotQueried" before the first query)
    ping_size,          \* size of the PING the ping flag holds (0: interest not Forced)
    ping_outcome,       \* what the ping flag did in the observed on_transmit
    elicited,           \* another producer wrote an ack-eliciting frame in it
    range,              \* the range argument of the last size_hint
    hint,               \* the value the last size_hint returned (-1 before the first)
    stream_type,        \* LocalInitiatedStreamController.stream_type
    max_local_limit,    \* .max_local_limit
    peer_stream_limit,  \* .peer_stream_limit
    opened_streams,     \* .opened_streams
    closed_streams,     \* .closed_streams
    streams_blocked_frame_sync,  \* .streams_blocked_frame_sync
    wakers,             \* .wakers
    token_counter,      \* .token_counter
    expired_token,      \* .expired_token
    remote,             \* the RemoteInitiatedStreamController's fields
    returned            \* the last call made on a controller: what it was
                        \* given, what it returned and what it wrote

vars == <<active_path_id, transmission_mode, payload, constraint,
          entry_capacity, entry_prioritize, trace, written, declined,
          did_send_ack, packets, run, interests, interest,
          ping_size, ping_outcome, elicited, range, hint,
          stream_type, max_local_limit, peer_stream_limit, opened_streams,
          closed_streams, streams_blocked_frame_sync, wakers, token_counter,
          expired_token, remote, returned>>

payloadvars == <<active_path_id, transmission_mode, payload>>

hintvars == <<range, hint>>

transmissionvars == <<active_path_id, transmission_mode, payload,
                      constraint, entry_capacity, entry_prioritize, trace,
                      written, declined, did_send_ack, packets, run, interests,
                      interest, ping_size, ping_outcome, elicited, range, hint>>

streamvars == <<stream_type, max_local_limit, peer_stream_limit, opened_streams,
                closed_streams, streams_blocked_frame_sync, wakers,
                token_counter, expired_token>>

controllervars == <<streamvars, remote, returned>>

pingvars == <<ping_size, ping_outcome, elicited>>

callvars == <<constraint, entry_capacity, entry_prioritize, trace, written,
              declined, did_send_ack>>

\* ------------------------------------------------------------ value domains
PathIds == 0 .. MaxPath

Modes == {"Normal", "LossRecoveryProbing", "MtuProbing", "PathValidationOnly"}

Constraints == [can_transmit : BOOLEAN, can_retransmit : BOOLEAN]

NormalProducers ==
    {"datagram_manager", "ack_manager", "handshake_status", "dc_manager",
     "crypto_stream", "active_path", "local_id_registry", "path_manager",
     "stream_manager", "recovery_manager", "ping"}

\* the wants of a set of producers: the size of the frame each one holds
\* (0: nothing to send), with a bounded total
RECURSIVE WantsOver(_, _)
WantsOver(producers, total) ==
    IF total = 0
    THEN {[p \in producers |-> 0]}
    ELSE LET less == WantsOver(producers, total - 1)
         IN  less \cup {[w EXCEPT ![p] = @ + 1] : w \in less, p \in producers}

NormalWants == WantsOver(NormalProducers, MaxWant)
MtuProbeWants == WantsOver({"mtu_controller"}, MaxWant)
PathValidationOnlyWants == WantsOver({"path"}, MaxWant)

\* ------------------------------------------------------------ write context
NewContext(capacity) ==
    [remaining_capacity |-> capacity, written |-> 0, declined |-> 0,
     ack_eliciting |-> FALSE, ping |-> "not_invoked"]

\* write_frame: None (nothing written) if the frame does not fit
write_frame(context, size) ==
    IF size <= context.remaining_capacity
    THEN [context EXCEPT !.remaining_capacity = @ - size, !.written = @ + size]
    ELSE [context EXCEPT !.declined = @ + 1]

\* the ack elicitation of the packet once a producer has had its turn: every
\* frame but the ACK manager's ACK is ack-eliciting
after_write(producer, before, after) ==
    IF after.written > before.written /\ producer # "ack_manager"
    THEN [after EXCEPT !.ack_eliciting = TRUE]
    ELSE after

\* the ping flag's on_transmit: a PING is written when the interest is Forced
\* (the flag holds a PING) and the packet is not ack-eliciting yet
ping_on_transmit(wants, context) ==
    IF wants["ping"] = 0
    THEN [context EXCEPT !.ping = "idle"]
    ELSE IF context.ack_eliciting
    THEN [context EXCEPT !.ping = "not_needed"]
    ELSE LET c == write_frame(context, wants["ping"])
         IN  IF c.written > context.written
             THEN [c EXCEPT !.ack_eliciting = TRUE, !.ping = "written"]
             ELSE [c EXCEPT !.ping = "did_not_fit"]

\* a producer's on_transmit: it writes the frame it holds, if any
producer_on_transmit(producer, wants, context) ==
    IF producer = "ping"
    THEN ping_on_transmit(wants, context)
    ELSE IF wants[producer] = 0
    THEN context
    ELSE after_write(producer, context, write_frame(context, wants[producer]))

Call(producer) ==
    [producer |-> producer, call |-> "on_transmit", prioritize |-> FALSE]

DatagramCall(prioritize) ==
    [producer |-> "datagram_manager", call |-> "on_transmit",
     prioritize |-> prioritize]

CompleteCall ==
    [producer |-> "ack_manager", call |-> "on_transmit_complete",
     prioritize |-> FALSE]

ToggleStep ==
    [producer |-> "self", call |-> "toggle_prioritize_datagrams",
     prioritize |-> FALSE]

\* the context after the calls have been made in order
RECURSIVE invoke_fresh_capacity(_, _, _)
invoke_fresh_capacity(calls, wants, context) ==
    IF calls = <<>>
    THEN context
    ELSE LET c == producer_on_transmit(Head(calls).producer, wants, context)
         IN  invoke_fresh_capacity(Tail(calls), wants,
                 [c EXCEPT !.remaining_capacity = context.remaining_capacity])

RECURSIVE invoke(_, _, _)
invoke(calls, wants, context) ==
    IF calls = <<>>
    THEN context
    ELSE invoke(Tail(calls), wants,
                producer_on_transmit(Head(calls).producer, wants, context))

\* ------------------------------------------------------------- Payload::new
Payload_new_active_path(id, mode) ==
    CASE mode \in {"LossRecoveryProbing", "Normal"} ->
            [variant |-> "Normal", prioritize_datagrams |-> FALSE]
      [] mode = "MtuProbing" ->
            [variant |-> "MtuProbe", mtu_controller |-> active_path_id]
      [] mode = "PathValidationOnly" ->
            [variant |-> "PathValidationOnly", path |-> active_path_id]

Payload_new_prioritized(id, mode) ==
    CASE mode \in {"LossRecoveryProbing", "Normal"} ->
            [variant |-> "Normal", prioritize_datagrams |-> TRUE]
      [] mode = "MtuProbing" ->
            [variant |-> "MtuProbe", mtu_controller |-> id]
      [] mode = "PathValidationOnly" ->
            [variant |-> "PathValidationOnly", path |-> id]

Payload_new(id, mode) ==
    CASE mode \in {"LossRecoveryProbing", "Normal"} ->
            [variant |-> "Normal", prioritize_datagrams |-> FALSE]
      [] mode = "MtuProbing" ->
            [variant |-> "MtuProbe", mtu_controller |-> id]
      [] mode = "PathValidationOnly" ->
            [variant |-> "PathValidationOnly", path |-> id]

\* ------------------------------------------------------ Normal::on_transmit
can_transmit_only(cons) == cons.can_transmit

can_transmit_or_retransmit(cons) == cons.can_transmit \/ cons.can_retransmit

prioritized_datagrams(self, can_transmit) ==
    IF self.prioritize_datagrams /\ can_transmit
    THEN <<DatagramCall(self.prioritize_datagrams)>>
    ELSE <<>>

transmit_control_data_swapped ==
    <<Call("dc_manager"), Call("handshake_status"), Call("crypto_stream"),
      Call("active_path"), Call("local_id_registry"), Call("path_manager")>>

transmit_control_data ==
    <<Call("handshake_status"), Call("dc_manager"), Call("crypto_stream"),
      Call("active_path"), Call("local_id_registry"), Call("path_manager")>>

unprioritized_datagrams_always(self) ==
    <<DatagramCall(self.prioritize_datagrams)>>

unprioritized_datagrams(self) ==
    IF ~self.prioritize_datagrams
    THEN <<DatagramCall(self.prioritize_datagrams)>>
    ELSE <<>>

transmit_data_without_ping ==
    <<Call("stream_manager"), Call("recovery_manager")>>

transmit_data_ping_first ==
    <<Call("ping"), Call("stream_manager"), Call("recovery_manager")>>

transmit_data ==
    <<Call("stream_manager"), Call("recovery_manager"), Call("ping")>>

transmit_block_datagrams_first(self, can_transmit) ==
    IF can_transmit
    THEN unprioritized_datagrams(self) \o transmit_control_data \o transmit_data
    ELSE <<>>

transmit_block(self, can_transmit) ==
    IF can_transmit
    THEN transmit_control_data \o unprioritized_datagrams(self) \o transmit_data
    ELSE <<>>

on_transmit_complete_always(sent) == <<CompleteCall>>

on_transmit_complete(sent) == IF sent THEN <<CompleteCall>> ELSE <<>>

toggle_if_permitted(self, can_transmit) ==
    IF can_transmit THEN ~self.prioritize_datagrams ELSE self.prioritize_datagrams

toggle(self, can_transmit) == ~self.prioritize_datagrams

Normal_on_transmit(self, cons, wants, context) ==
    LET can_transmit == can_transmit_or_retransmit(cons)
        first == prioritized_datagrams(self, can_transmit)
        c1 == invoke(first, wants, context)
        c2 == invoke(<<Call("ack_manager")>>, wants, c1)
        sent == c2.written > c1.written
        block == transmit_block(self, can_transmit)
        c3 == invoke(block, wants, c2)
    IN  [payload |-> [self EXCEPT !.prioritize_datagrams = toggle(self, can_transmit)],
         context |-> c3,
         did_send_ack |-> sent,
         trace |-> first \o <<Call("ack_manager")>> \o block
                   \o on_transmit_complete(sent) \o <<ToggleStep>>]

\* ---------------------------------------------------- MtuProbe::on_transmit
MtuProbe_on_transmit_or_retransmit(self, cons, wants, context) ==
    LET calls == IF can_transmit_or_retransmit(cons)
                 THEN <<Call("mtu_controller")>> ELSE <<>>
    IN  [payload |-> self, context |-> invoke(calls, wants, context),
         did_send_ack |-> FALSE, trace |-> calls]

MtuProbe_on_transmit(self, cons, wants, context) ==
    LET calls == IF cons.can_transmit THEN <<Call("mtu_controller")>> ELSE <<>>
    IN  [payload |-> self, context |-> invoke(calls, wants, context),
         did_send_ack |-> FALSE, trace |-> calls]

\* ------------------------------------------ PathValidationOnly::on_transmit
PathValidationOnly_on_transmit_with_acks(self, cons, wants, context) ==
    LET calls == IF cons.can_transmit THEN <<Call("path")>> ELSE <<>>
    IN  [payload |-> self, context |-> invoke(calls, wants, context),
         did_send_ack |-> FALSE, trace |-> <<Call("ack_manager")>> \o calls]

PathValidationOnly_on_transmit(self, cons, wants, context) ==
    LET calls == IF cons.can_transmit THEN <<Call("path")>> ELSE <<>>
    IN  [payload |-> self, context |-> invoke(calls, wants, context),
         did_send_ack |-> FALSE, trace |-> calls]

\* ----------------------------------------------------- Payload::on_transmit
Payload_on_transmit(self, cons, wants, context) ==
    CASE self.variant = "Normal" -> Normal_on_transmit(self, cons, wants, context)
      [] self.variant = "MtuProbe" -> MtuProbe_on_transmit(self, cons, wants, context)
      [] self.variant = "PathValidationOnly" ->
            PathValidationOnly_on_transmit(self, cons, wants, context)

PayloadWants(self) ==
    CASE self.variant = "Normal" -> NormalWants
      [] self.variant = "MtuProbe" -> MtuProbeWants
      [] self.variant = "PathValidationOnly" -> PathValidationOnlyWants

\* --------------------------------------------------- transmission interest
InterestOrder == <<"None", "NewData", "LostData", "Forced">>

Interests == {InterestOrder[n] : n \in DOMAIN InterestOrder}

Rank(i) == CHOOSE n \in DOMAIN InterestOrder : InterestOrder[n] = i

\* the providers Normal::transmission_interest asks, in the order it asks them
NormalProviders_without_dc ==
    <<"ack_manager", "handshake_status", "stream_manager", "datagram_manager",
      "local_id_registry", "path_manager", "crypto_stream", "recovery_manager",
      "active_path", "ping">>

NormalProviders ==
    <<"ack_manager", "handshake_status", "stream_manager", "datagram_manager",
      "local_id_registry", "path_manager", "crypto_stream", "recovery_manager",
      "active_path", "ping", "dc_manager">>

\* Query::on_interest of the interest accumulator: the query keeps the greater
\* interest and breaks once it holds Forced
on_interest(query, reported) ==
    LET kept == IF Rank(reported) > Rank(query) THEN reported ELSE query
    IN  [query |-> kept, break |-> kept = "Forced"]

\* provider.transmission_interest(query)?; ... ; Ok(())
RECURSIVE query_chain(_, _, _)
query_chain(providers, reports, query) ==
    IF providers = <<>>
    THEN query
    ELSE LET r == on_interest(query, reports[Head(providers)])
         IN  IF r.break THEN r.query
             ELSE query_chain(Tail(providers), reports, r.query)

Normal_transmission_interest(reports) ==
    query_chain(NormalProviders, reports, "None")

\* MtuProbe::transmission_interest(query), the query starting at None
MtuProbe_transmission_interest_none(reports) == "None"

MtuProbe_transmission_interest(reports) ==
    query_chain(<<"mtu_controller">>, reports, "None")

\* PathValidationOnly::transmission_interest(query)
PathValidationOnly_transmission_interest(reports) ==
    query_chain(<<"path">>, reports, "None")

\* Payload::transmission_interest(query)
Payload_transmission_interest(self, reports) ==
    CASE self.variant = "Normal" -> Normal_transmission_interest(reports)
      [] self.variant = "MtuProbe" -> MtuProbe_transmission_interest(reports)
      [] self.variant = "PathValidationOnly" ->
            PathValidationOnly_transmission_interest(reports)

NoInterests == [p \in NormalProducers |-> "None"]

\* what the one provider of a probing payload may report
ProbeReports(self) ==
    IF self.variant = "MtuProbe"
    THEN [{"mtu_controller"} -> Interests]
    ELSE [{"path"} -> Interests]

RECURSIVE InterestsOver(_)
InterestsOver(n) ==
    IF n = 0
    THEN {NoInterests}
    ELSE LET less == InterestsOver(n - 1)
         IN  less \cup {[f EXCEPT ![p] = i] : f \in less, p \in NormalProducers,
                                               i \in Interests}

InterestReports == InterestsOver(MaxInterested)

\* -------------------------------------------------------- Payload::size_hint
size_hint_start(self, r) == r.start

size_hint(self, r) == IF r.start >= 1 THEN r.start ELSE 1

\* no size_hint call yet
NoHint ==
    /\ range = [start |-> 0, end |-> 0]
    /\ hint = -1

\* ------------------------------------------ LocalInitiatedStreamController
StreamTypes == {"Bidirectional", "Unidirectional"}

Callers == 1 .. MaxCallers

\* the values of the wakers field: the callers whose waker is registered, in
\* the order of registration
RECURSIVE WakerListsOf(_)
WakerListsOf(n) ==
    IF n = 0
    THEN {<<>>}
    ELSE LET shorter == WakerListsOf(n - 1)
         IN  shorter \cup {Append(w, caller) : w \in shorter, caller \in Callers}

WakerLists == WakerListsOf(MaxWakers)

Min(a, b) == IF a < b THEN a ELSE b

\* PeriodicSync with nothing requested, in flight or acknowledged
SyncIdle == [state |-> "Idle", pn |-> 0, value |-> 0]

\* what a call returned and what it was given: arg is the limit of the frame,
\* the packet number of the ack set or the capacity of the context; id is the
\* stream id of a Ready; written is the bytes the call wrote into its context
Return(call, arg, result) ==
    [call |-> call, arg |-> arg, result |-> result, id |-> 0, written |-> 0]

NoCall == Return("none", 0, "none")

\* the fields of the struct
Controller ==
    [stream_type |-> stream_type,
     max_local_limit |-> max_local_limit,
     peer_stream_limit |-> peer_stream_limit,
     opened_streams |-> opened_streams,
     closed_streams |-> closed_streams,
     streams_blocked_frame_sync |-> streams_blocked_frame_sync,
     wakers |-> wakers,
     token_counter |-> token_counter,
     expired_token |-> expired_token]

\* fn new() -> Self { todo!() }
LocalInitiatedStreamController_new == Return("new", 0, "panic")

\* a poll_open_stream that counts a stream without consulting a limit
poll_open_stream_opening(self) == [self EXCEPT !.opened_streams = @ + 1]

\* fn poll_open_stream(&mut self) {}
poll_open_stream(self) == self

\* fn on_close_stream(&mut self) {}
on_close_stream(self) == self

\* fn on_close(&mut self) {}
on_close(self) == self

\* fn on_timeout(&mut self, now: Timestamp) {}
on_timeout(self, now) == self

\* fn on_packet_ack<A: ack::Set>(&mut self, ack_set: &A) {}
on_packet_ack(self, ack_set) == self

\* fn on_packet_loss<A: ack::Set>(&mut self, ack_set: &A) {}
on_packet_loss(self, ack_set) == self

\* fn on_transmit(&mut self, stream_id, context) -> Result<(), OnTransmitError>
\* { Ok(()) }: the context is not written to
controller_on_transmit(self, context) ==
    [self |-> self, context |-> context, result |-> "Ok(())"]

\* fn on_max_streams_frame(&self) {}: the frame's limit is not among the
\* parameters
on_max_streams_frame(self) == self

\* ----------------------------------------- RemoteInitiatedStreamController
\* IncrementalValueSync with value advertised and acknowledged
SyncAt(value) ==
    [latest_value |-> value, last_acked_value |-> value, in_flight |-> {}]

\* fn new() -> Self { todo!() }
RemoteInitiatedStreamController_new == Return("new", 0, "panic")

\* fn on_open_stream(&self) {}
remote_on_open_stream(self) == self

\* fn on_close_stream(&mut self) {}
remote_on_close_stream(self) == self

\* fn on_close(&mut self) {}
remote_on_close(self) == self

\* fn on_timeout(&mut self, now: Timestamp) {}
remote_on_timeout(self, now) == self

\* fn on_packet_ack<A: ack::Set>(&mut self, ack_set: &A) {}
remote_on_packet_ack(self, ack_set) == self

\* fn on_packet_loss<A: ack::Set>(&mut self, ack_set: &A) {}
remote_on_packet_loss(self, ack_set) == self

\* fn on_transmit(&mut self, stream_id, context) -> Result<(), OnTransmitError>
\* { Ok(()) }
remote_on_transmit(self, context) ==
    [self |-> self, context |-> context, result |-> "Ok(())"]

\* fn on_max_streams_frame(&self) {}
remote_on_max_streams_frame(self) == self

\* ------------------------------------------- the controllers' variables
\* the fields of a LocalInitiatedStreamController are those of self
Install(self) ==
    /\ stream_type' = self.stream_type
    /\ max_local_limit' = self.max_local_limit
    /\ peer_stream_limit' = self.peer_stream_limit
    /\ opened_streams' = self.opened_streams
    /\ closed_streams' = self.closed_streams
    /\ streams_blocked_frame_sync' = self.streams_blocked_frame_sync
    /\ wakers' = self.wakers
    /\ token_counter' = self.token_counter
    /\ expired_token' = self.expired_token

\* a value of the struct LocalInitiatedStreamController
Local(self) ==
    /\ stream_type = self.stream_type
    /\ max_local_limit = self.max_local_limit
    /\ peer_stream_limit = self.peer_stream_limit
    /\ opened_streams = self.opened_streams
    /\ closed_streams = self.closed_streams
    /\ streams_blocked_frame_sync = self.streams_blocked_frame_sync
    /\ wakers = self.wakers
    /\ token_counter = self.token_counter
    /\ expired_token = self.expired_token

LocalOf(type, local, peer, opened, closed, registered, counter, expired) ==
    [stream_type |-> type,
     max_local_limit |-> local,
     peer_stream_limit |-> peer,
     opened_streams |-> opened,
     closed_streams |-> closed,
     streams_blocked_frame_sync |-> SyncIdle,
     wakers |-> registered,
     token_counter |-> counter,
     expired_token |-> expired]

\* a value of the struct RemoteInitiatedStreamController
RemoteOf(type, local_limit, closed) ==
    [max_local_limit |-> local_limit,
     max_streams_frame_sync |-> SyncAt(local_limit + closed),
     closed_streams |-> closed,
     stream_type |-> type]

\* the specifications of the payload exercise no controller
NoControllers ==
    /\ Local(LocalOf("Bidirectional", 0, 0, 0, 0, <<>>, 0, 0))
    /\ remote = RemoteOf("Bidirectional", 0, 0)
    /\ returned = NoCall

\* ----------------------------------------------------------------- actions
Init ==
    /\ active_path_id \in PathIds
    /\ transmission_mode \in Modes
    /\ \E id \in PathIds : payload = Payload_new(id, transmission_mode)
    /\ constraint = [can_transmit |-> FALSE, can_retransmit |-> FALSE]
    /\ entry_capacity = 0
    /\ entry_prioritize = FALSE
    /\ trace = <<>>
    /\ written = 0
    /\ declined = 0
    /\ did_send_ack = FALSE
    /\ packets = 0
    /\ run = <<>>
    /\ interests = NoInterests
    /\ interest = "NotQueried"
    /\ ping_size = 0
    /\ ping_outcome = "not_invoked"
    /\ elicited = FALSE
    /\ NoHint
    /\ NoControllers

\* Payload::new(path_id, .., transmission_mode, ..). The debug_assert_eq! of
\* path_id against the active path is compiled out of a release build, which
\* constructs the payload for any path id; where a build with debug
\* assertions panics, no payload is constructed and no step is taken.
New(id, mode) ==
    /\ transmission_mode' = mode
    /\ payload' = Payload_new(id, mode)
    /\ constraint' = [can_transmit |-> FALSE, can_retransmit |-> FALSE]
    /\ entry_capacity' = 0
    /\ entry_prioritize' = FALSE
    /\ trace' = <<>>
    /\ written' = 0
    /\ declined' = 0
    /\ did_send_ack' = FALSE
    /\ packets' = 0
    /\ run' = <<>>
    /\ ping_size' = 0
    /\ ping_outcome' = "not_invoked"
    /\ elicited' = FALSE
    /\ interests' = NoInterests
    /\ interest' = "NotQueried"
    /\ UNCHANGED <<active_path_id, hintvars, controllervars>>

\* the state after an on_transmit call that ended with r
Transmitted(r, cons, capacity) ==
    /\ payload' = r.payload
    /\ constraint' = cons
    /\ entry_capacity' = capacity
    /\ entry_prioritize' =
          (payload.variant = "Normal" /\ payload.prioritize_datagrams)
    /\ trace' = r.trace
    /\ written' = r.context.written
    /\ declined' = r.context.declined
    /\ did_send_ack' = r.did_send_ack
    /\ UNCHANGED <<active_path_id, transmission_mode, interests,
                   interest, hintvars, controllervars>>

\* Payload::on_transmit(context)
Transmit(cons, capacity, wants) ==
    \E r \in {Payload_on_transmit(payload, cons, wants, NewContext(capacity))} :
        Transmitted(r, cons, capacity)

Construct == \E id \in PathIds, mode \in Modes : New(id, mode)

\* on_transmit on any constraint, capacity and wants; the per-lifetime record
\* (packets, run) is kept by SpecLifetime below, not here
OnTransmit ==
    \E cons \in Constraints, capacity \in 0 .. MaxCapacity,
       wants \in PayloadWants(payload) :
        /\ Transmit(cons, capacity, wants)
        /\ UNCHANGED <<packets, run, pingvars>>

Next == Construct \/ OnTransmit

Spec == Init /\ [][Next]_vars

\* ------------------------------------------- one payload over several packets
\* the wants of the lifetime specification: at most one producer holds a frame
LifetimeWants(self) == {w \in PayloadWants(self) :
                            \A p \in DOMAIN w : w[p] <= 1 /\
                            \A q \in DOMAIN w : (w[p] > 0 /\ w[q] > 0) => p = q}

Prioritized(calls) ==
    \E n \in DOMAIN calls : calls[n] = DatagramCall(TRUE)

\* on_transmit, recorded in packets and run
OnTransmitRecorded ==
    /\ packets < MaxPackets
    /\ \E cons \in Constraints, capacity \in 0 .. MaxCapacity,
          wants \in LifetimeWants(payload) :
        /\ Transmit(cons, capacity, wants)
        /\ packets' = packets + 1
        /\ run' = IF payload.variant = "Normal" /\ can_transmit_or_retransmit(cons)
                  THEN Append(run, Prioritized(trace'))
                  ELSE <<>>
        /\ UNCHANGED pingvars

NextLifetime == Construct \/ OnTransmitRecorded

SpecLifetime == Init /\ [][NextLifetime]_vars

\* ------------------------- on_transmit, then the interest of a probing payload
OnTransmitProbe ==
    /\ payload.variant # "Normal"
    /\ interest = "NotQueried"
    /\ OnTransmitRecorded

\* Payload::transmission_interest(query) of an MtuProbe or PathValidationOnly
\* payload, under the constraint its last on_transmit saw
ProbeInterest ==
    /\ payload.variant # "Normal"
    /\ packets > 0
    /\ \E reports \in ProbeReports(payload) :
          /\ interests' = reports
          /\ interest' = Payload_transmission_interest(payload, reports)
    /\ UNCHANGED <<payloadvars, callvars, packets, run, pingvars, hintvars,
                   controllervars>>

NextProbeInterest == Construct \/ OnTransmitProbe \/ ProbeInterest

SpecProbeInterest == Init /\ [][NextProbeInterest]_vars

\* ------------------------------------------------------------- size_hint
\* Payload::size_hint(range)
SizeHint ==
    \E start \in 0 .. MaxSize, end \in 0 .. MaxSize :
        /\ range' = [start |-> start, end |-> end]
        /\ hint' = size_hint(payload, range')
        /\ UNCHANGED <<payloadvars, callvars, packets, run, interests, interest,
                       pingvars, controllervars>>

NextSizeHint == Construct \/ SizeHint

SpecSizeHint == Init /\ [][NextSizeHint]_vars

\* ------------------------------------------- the ping flag in a Normal packet
\* on_transmit, with what the ping flag held and did and whether the other
\* producers made the packet ack-eliciting; the other producers hold frames of
\* one byte
PingWants(self) ==
    {w \in PayloadWants(self) : \A p \in DOMAIN w : p # "ping" => w[p] <= 1}

OnTransmitPing ==
    \E cons \in Constraints, capacity \in 0 .. MaxCapacity,
       wants \in PingWants(payload) :
        /\ \E r \in {Payload_on_transmit(payload, cons, wants,
                                         NewContext(capacity))} :
              /\ Transmitted(r, cons, capacity)
              /\ ping_size' = IF payload.variant = "Normal" THEN wants["ping"] ELSE 0
              /\ ping_outcome' = r.context.ping
              /\ elicited' = (r.context.ack_eliciting /\ r.context.ping # "written")
        /\ UNCHANGED <<packets, run>>

NextPing == Construct \/ OnTransmitPing

SpecPing == Init /\ [][NextPing]_vars

\* ---------------------------------------------- the interest query on its own
InitInterest ==
    /\ active_path_id = 0
    /\ transmission_mode = "Normal"
    /\ payload = Payload_new(0, transmission_mode)
    /\ constraint = [can_transmit |-> FALSE, can_retransmit |-> FALSE]
    /\ entry_capacity = 0
    /\ entry_prioritize = FALSE
    /\ trace = <<>>
    /\ written = 0
    /\ declined = 0
    /\ did_send_ack = FALSE
    /\ packets = 0
    /\ run = <<>>
    /\ interests \in InterestReports
    /\ interest = "NotQueried"
    /\ ping_size = 0
    /\ ping_outcome = "not_invoked"
    /\ elicited = FALSE
    /\ NoHint
    /\ NoControllers

\* Normal::transmission_interest(query), the query starting at None
TransmissionInterest ==
    /\ payload.variant = "Normal"
    /\ interest' = Normal_transmission_interest(interests)
    /\ UNCHANGED <<active_path_id, transmission_mode, payload,
                   callvars, packets, run, interests, pingvars, hintvars,
                   controllervars>>

NextInterest == TransmissionInterest

SpecInterest == InitInterest /\ [][NextInterest]_vars

\* ------------------------------------- the local-initiated stream controller
\* no payload is exercised
NoPayload ==
    /\ active_path_id = 0
    /\ transmission_mode = "Normal"
    /\ payload = Payload_new(0, transmission_mode)
    /\ constraint = [can_transmit |-> FALSE, can_retransmit |-> FALSE]
    /\ entry_capacity = 0
    /\ entry_prioritize = FALSE
    /\ trace = <<>>
    /\ written = 0
    /\ declined = 0
    /\ did_send_ack = FALSE
    /\ packets = 0
    /\ run = <<>>
    /\ interests = NoInterests
    /\ interest = "NotQueried"
    /\ ping_size = 0
    /\ ping_outcome = "not_invoked"
    /\ elicited = FALSE
    /\ NoHint

\* the limits a MAX_STREAMS frame carries
FrameLimits == 0 .. MaxPeerLimit + 1

PacketNumbers == 0 .. MaxPacketNumber

Timestamps == 0 .. MaxNow

\* new() panics and constructs no controller: the methods are exercised on a
\* receiver that is any value of the struct, no open being cancelled yet
InitStreams ==
    /\ NoPayload
    /\ \E type \in StreamTypes, local_limit \in 0 .. MaxLocalLimit,
          peer_limit \in 0 .. MaxPeerLimit, opened \in 0 .. MaxPeerLimit,
          closed \in 0 .. MaxClosed,
          registered \in {w \in WakerLists : Len(w) <= 1} :
            Local(LocalOf(type, local_limit, peer_limit, opened, closed,
                          registered, 0, 0))
    /\ remote = RemoteOf("Bidirectional", 0, 0)
    /\ returned = NoCall

\* LocalInitiatedStreamController::new()
NewLocal ==
    /\ returned' = LocalInitiatedStreamController_new
    /\ UNCHANGED <<transmissionvars, streamvars, remote>>

\* self.poll_open_stream()
PollOpenStream ==
    /\ Install(poll_open_stream(Controller))
    /\ returned' = Return("poll_open_stream", 0, "()")
    /\ UNCHANGED <<transmissionvars, remote>>

\* self.on_close_stream()
OnCloseStream ==
    /\ Install(on_close_stream(Controller))
    /\ returned' = Return("on_close_stream", 0, "()")
    /\ UNCHANGED <<transmissionvars, remote>>

\* self.on_close()
OnClose ==
    /\ Install(on_close(Controller))
    /\ returned' = Return("on_close", 0, "()")
    /\ UNCHANGED <<transmissionvars, remote>>

\* self.on_timeout(now)
OnTimeout(now) ==
    /\ Install(on_timeout(Controller, now))
    /\ returned' = Return("on_timeout", now, "()")
    /\ UNCHANGED <<transmissionvars, remote>>

\* self.on_packet_ack(ack_set), the ack set reporting packet pn
OnPacketAck(pn) ==
    /\ Install(on_packet_ack(Controller, pn))
    /\ returned' = Return("on_packet_ack", pn, "()")
    /\ UNCHANGED <<transmissionvars, remote>>

\* self.on_packet_loss(ack_set), the ack set reporting packet pn
OnPacketLoss(pn) ==
    /\ Install(on_packet_loss(Controller, pn))
    /\ returned' = Return("on_packet_loss", pn, "()")
    /\ UNCHANGED <<transmissionvars, remote>>

\* self.on_transmit(stream_id, context), the context having room for capacity
OnTransmitStreams(capacity) ==
    \E r \in {controller_on_transmit(Controller, NewContext(capacity))} :
        /\ Install(r.self)
        /\ returned' = [Return("on_transmit", capacity, r.result)
                           EXCEPT !.written = r.context.written]
        /\ UNCHANGED <<transmissionvars, remote>>

\* a MAX_STREAMS frame of limit new_limit arrives: self.on_max_streams_frame()
OnMaxStreamsFrame(new_limit) ==
    /\ Install(on_max_streams_frame(Controller))
    /\ returned' = Return("on_max_streams_frame", new_limit, "()")
    /\ UNCHANGED <<transmissionvars, remote>>

NextStreams ==
    \/ NewLocal
    \/ PollOpenStream
    \/ OnCloseStream
    \/ OnClose
    \/ \E now \in Timestamps : OnTimeout(now)
    \/ \E pn \in PacketNumbers : OnPacketAck(pn)
    \/ \E pn \in PacketNumbers : OnPacketLoss(pn)
    \/ \E capacity \in 0 .. MaxCapacity : OnTransmitStreams(capacity)
    \/ \E new_limit \in FrameLimits : OnMaxStreamsFrame(new_limit)

SpecStreams == InitStreams /\ [][NextStreams]_vars

\* --------------------------------------------- open attempts and the close
\* the receiver has opens suspended at the peer's limit, each holding a token
\* issued up to token_counter
InitClose ==
    /\ NoPayload
    /\ \E peer_limit \in 0 .. MaxPeerLimit, registered \in WakerLists,
          counter \in 0 .. MaxTokens :
            \E expired \in 0 .. counter :
                Local(LocalOf("Bidirectional", MaxLocalLimit, peer_limit,
                              peer_limit, 0, registered, counter, expired))
    /\ remote = RemoteOf("Bidirectional", 0, 0)
    /\ returned = NoCall

SpecClose == InitClose /\ [][NextStreams]_vars

\* ------------------------------------ the remote-initiated stream controller
\* new() panics and constructs no controller: the methods are exercised on a
\* receiver that is any value of the struct whose advertised limit is in step
\* with its closed streams
InitRemote ==
    /\ NoPayload
    /\ Local(LocalOf("Bidirectional", 0, 0, 0, 0, <<>>, 0, 0))
    /\ \E type \in StreamTypes, local_limit \in 0 .. MaxLocalLimit,
          closed \in 0 .. MaxRemoteStreams :
            remote = RemoteOf(type, local_limit, closed)
    /\ returned = NoCall

\* RemoteInitiatedStreamController::new()
NewRemote ==
    /\ returned' = RemoteInitiatedStreamController_new
    /\ UNCHANGED <<transmissionvars, streamvars, remote>>

\* self.on_open_stream()
OnOpenStreamRemote ==
    /\ remote' = remote_on_open_stream(remote)
    /\ returned' = Return("on_open_stream", 0, "()")
    /\ UNCHANGED <<transmissionvars, streamvars>>

\* self.on_close_stream()
OnCloseStreamRemote ==
    /\ remote' = remote_on_close_stream(remote)
    /\ returned' = Return("on_close_stream", 0, "()")
    /\ UNCHANGED <<transmissionvars, streamvars>>

\* self.on_close()
OnCloseRemote ==
    /\ remote' = remote_on_close(remote)
    /\ returned' = Return("on_close", 0, "()")
    /\ UNCHANGED <<transmissionvars, streamvars>>

\* self.on_timeout(now)
OnTimeoutRemote(now) ==
    /\ remote' = remote_on_timeout(remote, now)
    /\ returned' = Return("on_timeout", now, "()")
    /\ UNCHANGED <<transmissionvars, streamvars>>

\* self.on_packet_ack(ack_set), the ack set reporting packet pn
OnPacketAckRemote(pn) ==
    /\ remote' = remote_on_packet_ack(remote, pn)
    /\ returned' = Return("on_packet_ack", pn, "()")
    /\ UNCHANGED <<transmissionvars, streamvars>>

\* self.on_packet_loss(ack_set), the ack set reporting packet pn
OnPacketLossRemote(pn) ==
    /\ remote' = remote_on_packet_loss(remote, pn)
    /\ returned' = Return("on_packet_loss", pn, "()")
    /\ UNCHANGED <<transmissionvars, streamvars>>

\* self.on_transmit(stream_id, context), the context having room for capacity
OnTransmitRemote(capacity) ==
    \E r \in {remote_on_transmit(remote, NewContext(capacity))} :
        /\ remote' = r.self
        /\ returned' = [Return("on_transmit", capacity, r.result)
                           EXCEPT !.written = r.context.written]
        /\ UNCHANGED <<transmissionvars, streamvars>>

\* a MAX_STREAMS frame of limit new_limit arrives: self.on_max_streams_frame()
OnMaxStreamsFrameRemote(new_limit) ==
    /\ remote' = remote_on_max_streams_frame(remote)
    /\ returned' = Return("on_max_streams_frame", new_limit, "()")
    /\ UNCHANGED <<transmissionvars, streamvars>>

NextRemote ==
    \/ NewRemote
    \/ OnOpenStreamRemote
    \/ OnCloseStreamRemote
    \/ OnCloseRemote
    \/ \E now \in Timestamps : OnTimeoutRemote(now)
    \/ \E pn \in PacketNumbers : OnPacketAckRemote(pn)
    \/ \E pn \in PacketNumbers : OnPacketLossRemote(pn)
    \/ \E capacity \in 0 .. MaxCapacity : OnTransmitRemote(capacity)
    \/ \E new_limit \in FrameLimits : OnMaxStreamsFrameRemote(new_limit)

SpecRemote == InitRemote /\ [][NextRemote]_vars

\* ------------------------------------------------------------------ claims
\* a Normal::on_transmit call has completed and its invocations are in trace
NormalCall == payload.variant = "Normal" /\ trace # <<>>

\* the can_transmit local of that call
Permitted == constraint.can_transmit \/ constraint.can_retransmit

Positions(c) == {n \in DOMAIN trace : trace[n] = c}

Position(c) == CHOOSE n \in DOMAIN trace : trace[n] = c

Invoked(producer, call) ==
    {n \in DOMAIN trace : trace[n].producer = producer /\ trace[n].call = call}

Writers == {n \in DOMAIN trace : trace[n].call = "on_transmit"}

ControlProducers ==
    {"handshake_status", "dc_manager", "crypto_stream", "active_path",
     "local_id_registry", "path_manager"}

ControlPositions == {n \in DOMAIN trace : trace[n].producer \in ControlProducers}

IsListedProducer(c) ==
    c.call = "on_transmit" /\ c.producer \notin {"datagram_manager", "ack_manager"}

IsControlProducer(c) == c.producer \in ControlProducers

ControlOrder ==
    <<Call("handshake_status"), Call("dc_manager"), Call("crypto_stream"),
      Call("active_path"), Call("local_id_registry"), Call("path_manager")>>

\* C1: in a Normal on_transmit call with transmission permitted, the producers
\* after the ACK manager run in the order control-data block, stream manager,
\* recovery manager, ping; HANDSHAKE_DONE status runs before the stream
\* manager and no producer's on_transmit runs after the ping flag's.
C1_ProducerOrder ==
    (NormalCall /\ Permitted) =>
        LET ack == Position(Call("ack_manager"))
            after == SubSeq(trace, ack + 1, Len(trace))
        IN  /\ SelectSeq(after, IsListedProducer) =
                  ControlOrder \o <<Call("stream_manager"),
                                    Call("recovery_manager"), Call("ping")>>
            /\ Position(Call("handshake_status")) < Position(Call("stream_manager"))
            /\ \A n \in Writers : n <= Position(Call("ping"))

C1_Witness ==
    /\ NormalCall /\ Permitted /\ did_send_ack /\ ~entry_prioritize
    /\ Cardinality(Writers) = Cardinality(NormalProducers)

\* C2: whenever the control-data block runs, its six producers are invoked
\* exactly once each, one after the other, in the order HANDSHAKE_DONE status,
\* DC manager, crypto stream, active path, local connection-id registry, path
\* manager; and the block runs only if the call's can_transmit holds.
C2_ControlDataBlock ==
    ControlPositions # {} =>
        /\ Permitted
        /\ SelectSeq(trace, IsControlProducer) = ControlOrder
        /\ \A n \in ControlPositions : \A m \in ControlPositions :
              n - m < Len(ControlOrder)

C2_Witness ==
    /\ NormalCall /\ ControlPositions # {}
    /\ ~constraint.can_transmit /\ constraint.can_retransmit

\* what Payload::new(id, mode) is to construct
Constructed(id, mode) ==
    CASE mode = "Normal" -> [variant |-> "Normal", prioritize_datagrams |-> FALSE]
      [] mode = "LossRecoveryProbing" ->
            [variant |-> "Normal", prioritize_datagrams |-> FALSE]
      [] mode = "MtuProbing" -> [variant |-> "MtuProbe", mtu_controller |-> id]
      [] mode = "PathValidationOnly" ->
            [variant |-> "PathValidationOnly", path |-> id]

\* a step that is Payload::new(id, mode) leaves the payload Constructed(id, mode)
PayloadNewStep ==
    \A id \in PathIds, mode \in Modes :
        \/ payload' = Constructed(id, mode)
        \/ ~New(id, mode)

\* C3: Payload::new maps Normal and LossRecoveryProbing to the Normal variant,
\* MtuProbing to the MtuProbe variant on the MTU controller of the given path
\* id, PathValidationOnly to the PathValidationOnly variant on the given path,
\* and nothing else.
C3_PayloadNew ==
    /\ [](/\ transmission_mode \in {"Normal", "LossRecoveryProbing"}
             <=> payload.variant = "Normal"
          /\ transmission_mode = "MtuProbing" <=> payload.variant = "MtuProbe"
          /\ transmission_mode = "PathValidationOnly"
                <=> payload.variant = "PathValidationOnly")
    /\ [][PayloadNewStep]_vars

C3_Witness ==
    /\ transmission_mode = "PathValidationOnly"
    /\ payload.variant = "PathValidationOnly"
    /\ payload.path # active_path_id
    /\ packets > 0

\* C4: in a Normal packet with prioritize_datagrams true and transmission
\* permitted, the datagram manager is invoked with the priority flag set
\* before the ACK manager and every other producer, and only once.
C4_PrioritizedDatagramsFirst ==
    (NormalCall /\ entry_prioritize /\ Permitted) =>
        /\ trace[1] = DatagramCall(TRUE)
        /\ Position(Call("ack_manager")) > 1
        /\ Invoked("datagram_manager", "on_transmit") = {1}

C4_Witness ==
    /\ NormalCall /\ entry_prioritize /\ Permitted
    /\ trace[1] = DatagramCall(TRUE) /\ written > 0

\* the datagram manager is invoked once, without priority, after the whole
\* control-data block and before the stream manager
UnprioritizedDatagramsInPlace ==
    /\ Cardinality(Invoked("datagram_manager", "on_transmit")) = 1
    /\ Positions(DatagramCall(FALSE)) # {}
    /\ \A n \in ControlPositions : n < Position(DatagramCall(FALSE))
    /\ ControlPositions # {}
    /\ Positions(Call("stream_manager")) # {}
    /\ Position(DatagramCall(FALSE)) < Position(Call("stream_manager"))

\* C5 as stated: in every Normal packet with prioritize_datagrams false the
\* datagram manager is invoked without priority, after the control-data block
\* and before the stream manager.
C5_Original ==
    (NormalCall /\ ~entry_prioritize) => UnprioritizedDatagramsInPlace

\* C5 amended: in every Normal packet with prioritize_datagrams false in which
\* transmission is permitted (can_transmit or can_retransmit), the datagram
\* manager is invoked without priority, after the control-data block and
\* before the stream manager; when transmission is not permitted it is not
\* invoked.
C5_UnprioritizedDatagrams ==
    (NormalCall /\ ~entry_prioritize) =>
        IF Permitted
        THEN UnprioritizedDatagramsInPlace
        ELSE Invoked("datagram_manager", "on_transmit") = {}

C5_Witness ==
    /\ NormalCall /\ ~entry_prioritize /\ Permitted
    /\ Positions(DatagramCall(FALSE)) # {}
    /\ declined > 0

\* C6: prioritize_datagrams is false when the payload is built and is flipped
\* once at the end of every Normal::on_transmit call, whatever the constraint
\* and whatever was written: on the k-th packet the flag is true iff k is even.
C6_FlagAlternates ==
    payload.variant = "Normal" =>
        /\ packets = 0 => ~payload.prioritize_datagrams
        /\ payload.prioritize_datagrams <=> (packets % 2 = 1)
        /\ packets > 0 =>
              /\ entry_prioritize <=> (packets % 2 = 0)
              /\ payload.prioritize_datagrams <=> ~entry_prioritize
              /\ trace[Len(trace)] = ToggleStep
              /\ Cardinality(Positions(ToggleStep)) = 1

C6_Witness ==
    /\ payload.variant = "Normal" /\ packets >= 2
    /\ entry_prioritize /\ ~Permitted /\ written = 0
    /\ ~payload.prioritize_datagrams

WindowCount(i, j) == Cardinality({n \in i .. j : run[n]})

\* C7 as stated: over any N consecutive permitted Normal transmissions of one
\* payload, datagrams are prioritized in exactly ceil(N/2) packets.
C7_Original ==
    \A i \in DOMAIN run : \A j \in DOMAIN run :
        i <= j => WindowCount(i, j) = (j - i + 2) \div 2

\* C7 amended: over any N consecutive permitted Normal transmissions of one
\* payload, datagrams are prioritized in exactly floor(N/2) packets when the
\* first of them is an odd-numbered packet of the payload (so in floor(N/2)
\* of its first N packets), and in exactly ceil(N/2) when the first is an
\* even-numbered packet.
C7_Fairness ==
    \A i \in DOMAIN run : \A j \in DOMAIN run :
        i <= j =>
            LET first == packets - Len(run) + i
                n == j - i + 1
            IN  WindowCount(i, j) =
                    IF first % 2 = 1 THEN n \div 2 ELSE (n + 1) \div 2

C7_Witness ==
    /\ payload.variant = "Normal"
    /\ Len(run) >= 2 /\ Len(run) < packets
    /\ WindowCount(1, Len(run)) > 0

\* C8: every Normal::on_transmit call invokes the ACK manager's on_transmit
\* exactly once, and its on_transmit_complete iff that call reported an ACK
\* was sent; on_transmit_complete then runs after every producer of the
\* packet and before the prioritize_datagrams flag is toggled.
C8_AckManager ==
    NormalCall =>
        /\ Cardinality(Invoked("ack_manager", "on_transmit")) = 1
        /\ Cardinality(Positions(CompleteCall)) = (IF did_send_ack THEN 1 ELSE 0)
        /\ did_send_ack =>
              /\ \A n \in Writers : n < Position(CompleteCall)
              /\ Position(CompleteCall) < Position(ToggleStep)
        /\ Position(ToggleStep) = Len(trace)

C8_Witness ==
    /\ NormalCall /\ did_send_ack /\ Permitted
    /\ Position(Call("ping")) + 1 = Position(CompleteCall)

MaxRank == CHOOSE r \in {Rank(interests[p]) : p \in NormalProducers} :
              \A p \in NormalProducers : Rank(interests[p]) <= r

\* C9: the interest of a Normal payload is the greatest, in the order
\* Forced > LostData > NewData > None, of the interests of its eleven
\* providers, and it is None iff every provider reports None.
C9_InterestSupremum ==
    interest # "NotQueried" =>
        /\ Rank(interest) = MaxRank
        /\ interest = "None" <=> \A p \in NormalProducers : interests[p] = "None"

C9_Witness ==
    /\ interest = "LostData"
    /\ interests["dc_manager"] = "LostData"
    /\ interests["ack_manager"] = "NewData"
    /\ interests["ping"] = "None"

\* C10: for every payload variant, the bytes written by all producers during
\* one on_transmit call never exceed the remaining capacity seen on entry; a
\* frame that does not fit is not written and the call goes on to its end.
C10_CapacityRespected ==
    /\ written <= entry_capacity
    /\ written >= 0
    /\ (NormalCall /\ declined > 0) =>
          /\ trace[Len(trace)] = ToggleStep
          /\ Permitted => Cardinality(Writers) = Cardinality(NormalProducers)

C10_Witness ==
    /\ NormalCall /\ Permitted
    /\ declined > 0 /\ written > 0 /\ written <= entry_capacity
    /\ Positions(Call("ping")) # {}

\* the capacity left when the ping flag has its turn
CapacityBeforePing ==
    entry_capacity - written + (IF ping_outcome = "written" THEN ping_size ELSE 0)

\* C11 as stated: in a packet of a Normal payload a PING is written iff no
\* other producer emitted an ack-eliciting frame and the interest is Forced.
C11_Original ==
    NormalCall => (ping_outcome = "written" <=> (~elicited /\ ping_size > 0))

\* C11 amended: in a packet of a Normal payload the ping flag writes a PING
\* iff transmission is permitted (can_transmit or can_retransmit), no other
\* producer emitted an ack-eliciting frame, the interest is Forced and the
\* PING fits in the capacity the other producers left; when transmission is
\* not permitted the ping flag is not invoked.
C11_PingWritten ==
    NormalCall =>
        /\ ping_outcome = "written" <=>
              /\ Permitted
              /\ ~elicited
              /\ ping_size > 0
              /\ ping_size <= CapacityBeforePing
        /\ ping_outcome = "not_invoked" <=> ~Permitted

C11_Witness ==
    /\ NormalCall /\ Permitted /\ did_send_ack
    /\ ~elicited /\ ping_size > 0 /\ ping_outcome = "written"

\* C12: an MtuProbe payload invokes exactly one producer, the MTU controller of
\* its path, and only when the constraint's can_transmit holds; when
\* can_transmit is false (also when only can_retransmit holds) on_transmit
\* invokes no producer and writes no frame.
C12_MtuProbeGated ==
    (payload.variant = "MtuProbe" /\ packets > 0) =>
        /\ payload.mtu_controller \in PathIds
        /\ constraint.can_transmit =>
              /\ Len(trace) = 1
              /\ trace[1] = [producer |-> "mtu_controller", call |-> "on_transmit",
                             prioritize |-> FALSE]
        /\ ~constraint.can_transmit => (trace = <<>> /\ written = 0)

C12_Witness ==
    /\ payload.variant = "MtuProbe" /\ packets > 0
    /\ ~constraint.can_transmit /\ constraint.can_retransmit
    /\ entry_capacity > 0
    /\ trace = <<>> /\ written = 0

\* C13: a PathValidationOnly payload invokes exactly one producer, the
\* specified path: the ACK manager, the stream manager, the datagram manager,
\* the crypto stream and every other Normal producer are never invoked, for
\* any constraint and any path id.
C13_PathValidationOnly ==
    (payload.variant = "PathValidationOnly" /\ packets > 0) =>
        /\ payload.path \in PathIds
        /\ Len(trace) <= 1
        /\ \A n \in DOMAIN trace :
              /\ trace[n].producer = "path"
              /\ trace[n].producer \notin NormalProducers
              /\ trace[n].call = "on_transmit"
        /\ written > 0 => Len(trace) = 1
        /\ ~did_send_ack

C13_Witness ==
    /\ payload.variant = "PathValidationOnly" /\ packets > 0
    /\ payload.path # active_path_id
    /\ Len(trace) = 1 /\ trace[1].producer = "path"
    /\ written > 0

\* C14: for every payload variant and every inclusive range of sizes,
\* size_hint returns at least 1 and equals max(range.start, 1): range.start
\* itself when range.start >= 1, and 1 when range.start is 0.
C14_SizeHint ==
    hint # -1 =>
        /\ hint >= 1
        /\ range.start >= 1 => hint = range.start
        /\ range.start = 0 => hint = 1

C14_Witness ==
    /\ payload.variant = "MtuProbe"
    /\ range.start = 0 /\ range.end > 0
    /\ hint = 1

\* C15 as stated: in MtuProbing mode on the active path with can_transmit
\* false, the MtuProbe payload's transmission_interest is None, whatever the
\* MTU controller reports.
C15_Original ==
    (/\ payload.variant = "MtuProbe" /\ payload.mtu_controller = active_path_id
     /\ packets > 0 /\ ~constraint.can_transmit
     /\ interest # "NotQueried") => interest = "None"

\* C15: in MtuProbing mode on the active path with can_transmit false,
\* on_transmit writes no frame, and the MtuProbe payload's
\* transmission_interest is the interest the MTU controller itself reports,
\* whatever the constraint: it is None only when the MTU controller reports
\* None.
C15_ProbeInterest ==
    (/\ payload.variant = "MtuProbe" /\ payload.mtu_controller = active_path_id
     /\ interest # "NotQueried") =>
        /\ interest = interests["mtu_controller"]
        /\ ~constraint.can_transmit => (written = 0 /\ trace = <<>>)

C15_Witness ==
    /\ payload.variant = "MtuProbe" /\ payload.mtu_controller = active_path_id
    /\ packets > 0 /\ ~constraint.can_transmit /\ entry_capacity > 0
    /\ written = 0
    /\ interest = "NewData"
    /\ interests["mtu_controller"] = "NewData"

\* the two low bits of the stream ids of a type: the bit of the initiator,
\* which the controller does not hold, and the bit of the direction
Tags(type) == IF type = "Bidirectional" THEN {0, 1} ELSE {2, 3}

\* what C16 states of a poll_open_stream call
PollOutcome ==
    IF opened_streams < Min(max_local_limit, peer_stream_limit)
    THEN /\ returned'.result = "Ready"
         /\ returned'.id \div 4 = opened_streams
         /\ returned'.id % 4 \in Tags(stream_type)
         /\ opened_streams' = opened_streams + 1
    ELSE /\ returned'.result = "Pending"
         /\ Len(wakers') = Len(wakers) + 1
         /\ streams_blocked_frame_sync'.value = peer_stream_limit
         /\ opened_streams' = opened_streams

PollStep == PollOutcome \/ ~PollOpenStream

\* C16: for a local-initiated stream type, poll_open_stream returns Ready with
\* the next stream id of the quadrant, (n << 2) | quadrant_tag for the n-th
\* stream, and increments opened_streams exactly when opened_streams <
\* min(max_local_limit, peer_stream_limit); otherwise it returns Pending,
\* registers the caller's waker, records the blocked-at value
\* peer_stream_limit and leaves opened_streams unchanged.
C16_Original == [][PollStep]_vars

\* opened_streams <= min(max_local_limit + closed_streams, peer_stream_limit)
OpenedWithinLimits ==
    opened_streams
        <= Min(max_local_limit + closed_streams, peer_stream_limit)

LimitsStep == OpenedWithinLimits => OpenedWithinLimits'

PeerLimitOutcome(new_limit) ==
    IF new_limit > peer_stream_limit
    THEN peer_stream_limit' = new_limit
    ELSE peer_stream_limit' = peer_stream_limit /\ wakers' = wakers

PeerLimitStep ==
    \A new_limit \in FrameLimits :
        PeerLimitOutcome(new_limit) \/ ~OnMaxStreamsFrame(new_limit)

\* C18: peer_stream_limit never decreases: on_max_streams_frame(new_limit)
\* sets it to new_limit iff new_limit > peer_stream_limit, and leaves it and
\* the wakers unchanged when new_limit <= peer_stream_limit.
C18_Original ==
    /\ [][peer_stream_limit' >= peer_stream_limit]_vars
    /\ [][PeerLimitStep]_vars

\* an open attempt is suspended and of the two limits only the peer's is
\* exhausted
PeerBlocked ==
    /\ wakers # <<>>
    /\ opened_streams >= peer_stream_limit
    /\ opened_streams < max_local_limit

\* a MAX_STREAMS frame of a greater limit wakes and drops every waker and
\* leaves the STREAMS_BLOCKED synchronizer Idle
RaisedStep ==
    \A new_limit \in FrameLimits :
        \/ ~(PeerBlocked /\ new_limit > peer_stream_limit)
        \/ wakers' = <<>> /\ streams_blocked_frame_sync' = SyncIdle
        \/ ~OnMaxStreamsFrame(new_limit)

\* the poll_open_stream that follows the frame returns Ready with the next id
ResumedStep ==
    \/ ~(/\ returned.call = "on_max_streams_frame"
         /\ returned.arg > opened_streams
         /\ opened_streams < max_local_limit)
    \/ /\ returned'.result = "Ready"
       /\ returned'.id \div 4 = opened_streams
       /\ returned'.id % 4 \in Tags(stream_type)
    \/ ~PollOpenStream

\* C19: whenever a local open attempt is Pending because the peer's limit is
\* exhausted and a MAX_STREAMS frame with a strictly greater limit is then
\* received, every registered waker is woken, the next poll_open_stream
\* returns Ready with the next stream id, and the STREAMS_BLOCKED synchronizer
\* is Idle without a retransmission (limit 3, fourth open Pending,
\* MAX_STREAMS(5): Ready with id 12).
C19_Original ==
    /\ [][RaisedStep]_vars
    /\ [][ResumedStep]_vars

\* the on_transmit that follows an open refused at the peer's limit, no
\* STREAMS_BLOCKED of that value being in flight or acknowledged, writes one
\* STREAMS_BLOCKED carrying the limit
BlockedStep ==
    \A capacity \in 1 .. MaxCapacity :
        \/ ~(/\ returned.call = "poll_open_stream"
             /\ opened_streams >= peer_stream_limit
             /\ streams_blocked_frame_sync.state = "Idle")
        \/ /\ returned'.written > 0
           /\ streams_blocked_frame_sync'.state = "InFlight"
           /\ streams_blocked_frame_sync'.value = peer_stream_limit
        \/ ~OnTransmitStreams(capacity)

\* while a STREAMS_BLOCKED is in flight or acknowledged at the blocked value,
\* on_transmit writes no further one
NoSecondStep ==
    \A capacity \in 0 .. MaxCapacity :
        \/ ~(/\ streams_blocked_frame_sync.state \in {"InFlight", "Acked"}
             /\ streams_blocked_frame_sync.value = peer_stream_limit)
        \/ returned'.written = 0
        \/ ~OnTransmitStreams(capacity)

\* C20: at most one STREAMS_BLOCKED frame is in flight per stream type and
\* blocked value: a refused open triggers exactly one STREAMS_BLOCKED carrying
\* the blocked value, and refusals at the same value while it is in flight or
\* after it was acknowledged send no further frame.
C20_Original ==
    /\ [][BlockedStep]_vars
    /\ [][NoSecondStep]_vars

\* on_close_stream counts the stream and raises the MAX_STREAMS target to
\* max_local_limit + closed_streams
TargetStep ==
    \/ /\ remote'.closed_streams = remote.closed_streams + 1
       /\ remote'.max_streams_frame_sync.latest_value
             = remote.max_local_limit + remote'.closed_streams
    \/ ~OnCloseStreamRemote

\* the on_transmit that follows a raised target writes a MAX_STREAMS frame
MaxStreamsStep ==
    \A capacity \in 1 .. MaxCapacity :
        \/ returned.call # "on_close_stream"
        \/ returned'.written > 0
        \/ ~OnTransmitRemote(capacity)

\* C21: for a remote-initiated controller, each on_close_stream raises the
\* MAX_STREAMS target to max_local_limit + closed_streams and on_transmit
\* writes a MAX_STREAMS frame carrying the target current at the time of
\* writing; the last acknowledged value never decreases and never exceeds
\* the latest value.
C21_Original ==
    /\ [](remote.max_streams_frame_sync.last_acked_value
            <= remote.max_streams_frame_sync.latest_value)
    /\ [][remote'.max_streams_frame_sync.last_acked_value
            >= remote.max_streams_frame_sync.last_acked_value]_vars
    /\ [][TargetStep]_vars
    /\ [][MaxStreamsStep]_vars

\* on_close with an open pending advances expired_token to token_counter and
\* drops the wakers
CloseStep ==
    \/ wakers = <<>>
    \/ expired_token' = token_counter /\ wakers' = <<>>
    \/ ~OnClose

\* the poll_open_stream that follows the close, made with a token issued
\* before it, resolves to Cancelled
CancelledStep ==
    \/ ~(returned.call = "on_close" /\ token_counter > 0)
    \/ returned'.result = "Cancelled"
    \/ ~PollOpenStream

\* C22: when the connection closes while a local open is pending,
\* expired_token is advanced to the current token_counter, every registered
\* waker is invoked once and the waker list is dropped; every later
\* poll_open_stream made with a token issued before the close resolves to
\* Cancelled.
C22_Original ==
    /\ [][CloseStep]_vars
    /\ [][CancelledStep]_vars

\* the invocations of a Normal call in which every producer runs
EveryProducer ==
    (IF entry_prioritize THEN <<DatagramCall(TRUE)>> ELSE <<>>)
    \o <<Call("ack_manager")>>
    \o ControlOrder
    \o (IF entry_prioritize THEN <<>> ELSE <<DatagramCall(FALSE)>>)
    \o <<Call("stream_manager"), Call("recovery_manager"), Call("ping")>>
    \o (IF did_send_ack THEN <<CompleteCall>> ELSE <<>>)
    \o <<ToggleStep>>

\* the invocations of a Normal call in which only the ACK manager runs
AckManagerOnly ==
    <<Call("ack_manager")>>
    \o (IF did_send_ack THEN <<CompleteCall>> ELSE <<>>)
    \o <<ToggleStep>>

\* C23: in a Normal::on_transmit call whose constraint allows neither
\* can_transmit nor can_retransmit the only producer invoked is the ACK
\* manager (on_transmit, and on_transmit_complete if an ACK was sent): the
\* datagram manager, the control-data block, the stream manager, the recovery
\* manager and the ping flag are not invoked and write nothing, while
\* prioritize_datagrams is still toggled; when only can_retransmit holds,
\* every Normal producer runs as if can_transmit held.
C23_ConstraintGate ==
    NormalCall =>
        /\ payload.prioritize_datagrams = ~entry_prioritize
        /\ (~constraint.can_transmit /\ ~constraint.can_retransmit) =>
              /\ trace = AckManagerOnly
              /\ ping_outcome = "not_invoked"
              /\ ~elicited
              /\ ~did_send_ack => written = 0
        /\ (constraint.can_transmit \/ constraint.can_retransmit) =>
              /\ trace = EveryProducer
              /\ ping_outcome # "not_invoked"

C23_Witness ==
    /\ NormalCall
    /\ ~constraint.can_transmit /\ ~constraint.can_retransmit
    /\ entry_prioritize /\ ~payload.prioritize_datagrams
    /\ entry_capacity > 0 /\ ping_size > 0
    /\ did_send_ack
    /\ trace = <<Call("ack_manager"), CompleteCall, ToggleStep>>

====
